---- MODULE Spec2Model ----
(***************************************************************************)
(* What's Up Docker integration: the polling coordinator, the config flow, *)
(* the entry set-up and the per-container update entity (versions, release *)
(* URL, release notes, install trigger).                                   *)
(*                                                                         *)
(* Python strings that the code inspects character by character (links,    *)
(* tags, ids, trigger labels, URLs) are tuples of one-character strings.   *)
(* Container names, dict keys and outcome labels are opaque TLA+ strings.  *)
(* A Python dict is a function on its keys; a missing key is a key that is *)
(* not in the DOMAIN.  Python None is the value None below, and a value    *)
(* that may be None is wrapped: Some(v).                                   *)
(***************************************************************************)
EXTENDS Naturals, Sequences, FiniteSets, Bags, TLC

(* ------------------------------ bounds -------------------------------- *)
\* longest JSON array a fetch returns
MaxLen == 2
\* longest tag string drawn for the release-URL specification
MaxTagLen == 2
\* handler calls that wait for their HTTP answer at one time
MaxWaiting == 2

(* ------------------------- Python values ------------------------------ *)
None == [none |-> TRUE]
Some(v) == [val |-> v]
EmptyDict == [k \in {} |-> TRUE]
\* d.get(k)
Get(d, k) == IF k \in DOMAIN d THEN Some(d[k]) ELSE None
\* d.get(k, default)
GetOr(d, k, default) == IF k \in DOMAIN d THEN d[k] ELSE default
\* truth value of an optional string: None and "" are false
Truthy(o) == o # None /\ o.val # <<>>

(* ---------------------------- str methods ----------------------------- *)
Digits == {"0", "1", "2", "3", "4", "5", "6", "7", "8", "9"}
\* s[i:].startswith(sub), i counted from 1
MatchAt(s, i, sub) ==
    /\ i + Len(sub) - 1 <= Len(s)
    /\ \A j \in 1..Len(sub) : s[i + j - 1] = sub[j]
\* s.endswith(suf)
EndsWith(s, suf) == Len(s) >= Len(suf) /\ MatchAt(s, Len(s) - Len(suf) + 1, suf)
\* sub in s
Contains(s, sub) == \E i \in 1..(Len(s) + 1) : MatchAt(s, i, sub)
\* s.replace(old, new): every non-overlapping occurrence, left to right
RECURSIVE ReplaceFrom(_, _, _, _)
ReplaceFrom(s, i, old, new) ==
    IF i > Len(s) THEN <<>>
    ELSE IF MatchAt(s, i, old)
         THEN new \o ReplaceFrom(s, i + Len(old), old, new)
         ELSE <<s[i]>> \o ReplaceFrom(s, i + 1, old, new)
Replace(s, old, new) == ReplaceFrom(s, 1, old, new)
\* re.search(r"\d+$", tag): the digit run that ends the string, or that ends
\* just before one final newline ($ also matches there); <<>> when no match.
\* Only ASCII digits are drawn here (\d also matches other Unicode digits).
ReSearchDigits(tag) ==
    LET end == IF Len(tag) > 0 /\ tag[Len(tag)] = "\n" THEN Len(tag) - 1 ELSE Len(tag)
        starts == {i \in 1..end : \A j \in i..end : tag[j] \in Digits}
    IN  IF starts = {} THEN <<>>
        ELSE SubSeq(tag, CHOOSE i \in starts : \A k \in starts : i <= k, end)

(* --------------------------- string constants ------------------------- *)
Undefined == <<"u", "n", "d", "e", "f", "i", "n", "e", "d">>
Dot == <<".">>
Slash == <<"/">>
GitHubHost == <<"g", "i", "t", "h", "u", "b", ".", "c", "o", "m">>
GitHubWeb == <<"h", "t", "t", "p", "s", ":", "/", "/", "g", "i", "t", "h", "u", "b", ".", "c", "o", "m", "/">>
GitHubApi == <<"h", "t", "t", "p", "s", ":", "/", "/", "a", "p", "i", ".", "g", "i", "t", "h", "u", "b", ".", "c", "o", "m", "/", "r", "e", "p", "o", "s", "/">>
ReleasesTag == <<"/", "r", "e", "l", "e", "a", "s", "e", "s", "/", "t", "a", "g", "/">>
ReleasesTags == <<"/", "r", "e", "l", "e", "a", "s", "e", "s", "/", "t", "a", "g", "s", "/">>
TagsPath == <<"/", "t", "a", "g", "s", "/">>
ReleasesLatest == <<"/", "r", "e", "l", "e", "a", "s", "e", "s", "/", "l", "a", "t", "e", "s", "t">>
TriggersPath == <<"/", "t", "r", "i", "g", "g", "e", "r", "s", "/">>
ApiContainers == <<"/", "a", "p", "i", "/", "c", "o", "n", "t", "a", "i", "n", "e", "r", "s">>
TriggerLabel == "wud.trigger.hass"

(* ------------------------- the config entry --------------------------- *)
\* entry.data as the config flow saves it
EntryData ==
    [name |-> "wud", protocol |-> <<"h", "t", "t", "p">>, host |-> <<"h">>, port |-> <<"3", "0", "0", "0">>]
\* url = f"{protocol}://{host}:{port}/api/containers"
CoordinatorUrl ==
    EntryData.protocol \o <<":", "/", "/">> \o EntryData.host \o <<":">> \o EntryData.port
        \o ApiContainers
EntryId == "entry1"

(* ----------------------- entity projection ---------------------------- *)
\* coordinator.data.get(name): [raised, ret].  A coordinator that has no data
\* yet holds None, and None has no get: AttributeError.
ContainerData(d, key) ==
    IF d = None THEN [raised |-> "AttributeError", ret |-> None]
    ELSE [raised |-> "", ret |-> Get(d, key)]
\* the "if container_data" test on what get returned
HasRecord(d, key) ==
    ContainerData(d, key).ret # None /\ DOMAIN ContainerData(d, key).ret.val # {}

\* container_data.get("image", {}).get("tag", {}).get("value")
ImageTagValue(rec) == Get(GetOr(GetOr(rec, "image", EmptyDict), "tag", EmptyDict), "value")
\* container_data.get("result", {}).get(field)
ResultField(rec, field) == Get(GetOr(rec, "result", EmptyDict), field)
\* container_data.get("updateAvailable") as a truth value
UpdateAvailable(rec) == GetOr(rec, "updateAvailable", FALSE)

\* the installed_version property: [raised, ret]
installed_version(d, key) ==
    IF ContainerData(d, key).raised # "" THEN ContainerData(d, key)
    ELSE IF HasRecord(d, key)
    THEN [raised |-> "", ret |-> ImageTagValue(ContainerData(d, key).ret.val)]
    ELSE [raised |-> "", ret |-> None]

\* A variant with the fault C11 must detect, updateAvailable not looked at
latest_versionInstalledOnly(d, key) ==
    IF ContainerData(d, key).raised # "" THEN ContainerData(d, key)
    ELSE IF HasRecord(d, key)
    THEN [raised |-> "", ret |-> ImageTagValue(ContainerData(d, key).ret.val)]
    ELSE [raised |-> "", ret |-> None]
\* the latest_version property: [raised, ret]
latest_version(d, key) ==
    IF ContainerData(d, key).raised # "" THEN ContainerData(d, key)
    ELSE IF HasRecord(d, key)
    THEN IF UpdateAvailable(ContainerData(d, key).ret.val)
         THEN [raised |-> "", ret |-> ResultField(ContainerData(d, key).ret.val, "tag")]
         ELSE [raised |-> "", ret |-> ImageTagValue(ContainerData(d, key).ret.val)]
    ELSE [raised |-> "", ret |-> None]

\* the in_progress property: there is no progress to track
in_progress(d, key) == FALSE

\* the link and the tag release_url starts from
ChosenLink(rec) == IF UpdateAvailable(rec) THEN ResultField(rec, "link") ELSE Get(rec, "link")
ChosenTag(rec) == IF UpdateAvailable(rec) THEN ResultField(rec, "tag") ELSE ImageTagValue(rec)

\* A variant with the fault C10 must detect, the first test made with `in` for endswith
FixupContains(link, tag) ==
    IF Truthy(link) /\ Contains(link.val, Undefined)
    THEN IF tag = None THEN [raised |-> "TypeError", ret |-> None]
         ELSE IF ReSearchDigits(tag.val) # <<>>
              THEN [raised |-> "", ret |-> Some(Replace(link.val, Undefined, ReSearchDigits(tag.val)))]
              ELSE [raised |-> "", ret |-> link]
    ELSE IF Truthy(link) /\ EndsWith(link.val, Dot)
    THEN IF tag = None THEN [raised |-> "TypeError", ret |-> None]
         ELSE IF ReSearchDigits(tag.val) # <<>>
              THEN [raised |-> "", ret |-> Some(link.val \o ReSearchDigits(tag.val))]
              ELSE [raised |-> "", ret |-> link]
    ELSE [raised |-> "", ret |-> link]
\* The two fix-ups of release_url on a link and a tag (either may be None).
\* re.search on a None tag raises TypeError.
Fixup(link, tag) ==
    IF Truthy(link) /\ EndsWith(link.val, Undefined)
    THEN IF tag = None THEN [raised |-> "TypeError", ret |-> None]
         ELSE IF ReSearchDigits(tag.val) # <<>>
              THEN [raised |-> "", ret |-> Some(Replace(link.val, Undefined, ReSearchDigits(tag.val)))]
              ELSE [raised |-> "", ret |-> link]
    ELSE IF Truthy(link) /\ EndsWith(link.val, Dot)
    THEN IF tag = None THEN [raised |-> "TypeError", ret |-> None]
         ELSE IF ReSearchDigits(tag.val) # <<>>
              THEN [raised |-> "", ret |-> Some(link.val \o ReSearchDigits(tag.val))]
              ELSE [raised |-> "", ret |-> link]
    ELSE [raised |-> "", ret |-> link]

\* the release_url property: [raised, ret]
release_url(d, key) ==
    IF ContainerData(d, key).raised # "" THEN ContainerData(d, key)
    ELSE IF HasRecord(d, key)
    THEN Fixup(ChosenLink(ContainerData(d, key).ret.val), ChosenTag(ContainerData(d, key).ret.val))
    ELSE [raised |-> "", ret |-> None]

(* ------------------- container records WUD may return ----------------- *)
Repo == <<"o", "/", "r">>
LinkTagUndefined == GitHubWeb \o Repo \o ReleasesTag \o <<"v", "1", ".", "2", ".", "u", "n", "d", "e", "f", "i", "n", "e", "d">>
LinkLatest == GitHubWeb \o Repo \o ReleasesLatest
LinkTagsDot == GitHubWeb \o Repo \o TagsPath \o <<"v", "2", ".">>
LinkRepoOnly == GitHubWeb \o Repo
LinkElsewhere == <<"h", "t", "t", "p", "s", ":", "/", "/", "e", "x", "a", "m", "p", "l", "e", ".", "o", "r", "g", "/", "x">>

Labels(v) == [k \in {TriggerLabel} |-> v]
Image(v) == [tag |-> [value |-> v]]

RecA1 ==
    [name |-> "a", id |-> <<"c", "1">>, labels |-> Labels(<<"d", "o", "c", "k", "e", "r", ".", "l", "o", "c", "a", "l">>),
     updateAvailable |-> TRUE, image |-> Image(<<"v", "1", ".", "2", ".", "2">>),
     result |-> [tag |-> <<"v", "1", ".", "2", ".", "3">>, link |-> LinkTagUndefined], link |-> LinkLatest]
RecA2 ==
    [name |-> "a", labels |-> Labels(<<"d", "o", "c", "k", "e", "r", ".", "l", "o", "c", "a", "l">>),
     updateAvailable |-> FALSE, image |-> Image(<<"1">>), link |-> LinkLatest]
RecA3 ==
    [name |-> "a", id |-> <<"c", "1">>, labels |-> EmptyDict,
     updateAvailable |-> FALSE, link |-> LinkTagUndefined]
RecB1 ==
    [name |-> "b", id |-> <<"c", "2">>,
     updateAvailable |-> FALSE, image |-> Image(<<"v", "2", ".", "5">>), link |-> LinkTagsDot]
RecB2 ==
    [name |-> "b", id |-> <<"c", "2">>, labels |-> Labels(<<>>),
     updateAvailable |-> TRUE, image |-> Image(<<"8">>),
     result |-> [tag |-> <<"9">>], link |-> LinkElsewhere]
RecB3 ==
    [name |-> "b", id |-> <<"c", "2">>, labels |-> Labels(<<"a", ".", "b", ".", "c">>),
     image |-> Image(<<"l", "a", "t", "e", "s", "t">>), link |-> LinkRepoOnly]
RecNoName == [id |-> <<"c", "3">>, updateAvailable |-> FALSE]

Records == {RecA1, RecA2, RecA3, RecB1, RecB2, RecB3, RecNoName}

\* the sequences over S of length at most n
RECURSIVE SeqsUpTo(_, _)
SeqsUpTo(S, n) ==
    IF n = 0 THEN {<<>>}
    ELSE SeqsUpTo(S, n - 1) \cup
         {Append(s, x) : s \in {t \in SeqsUpTo(S, n - 1) : Len(t) = n - 1}, x \in S}

(* ---------------------------- coordinator ----------------------------- *)
\* What awaiting _async_fetch_data under wait_for(timeout=5) can give:
\* TimeoutError, an aiohttp.ClientError (raise_for_status included), or the
\* parsed JSON array.
FetchOutcomes ==
    {[kind |-> "timeout"], [kind |-> "client_error"]}
        \cup {[kind |-> "json", body |-> b] : b \in SeqsUpTo(Records, MaxLen)}
\* the outcomes whose array names no container twice and lists "a" before
\* "b", and those whose array is one record without name.  The mapping built
\* does not depend on the order of the names, an array with a repeated name
\* gives the mapping of the array without the earlier occurrences (C2), and a
\* record without name makes the refresh fail whatever the other records are
\* (C1), so the steps of the entities are interleaved with refreshes of these
\* arrays.
Rank(rec) == IF "name" \notin DOMAIN rec THEN 0 ELSE IF rec.name = "a" THEN 1 ELSE 2
OnceInOrder(body) ==
    /\ \A i, j \in 1..Len(body) : i < j => Rank(body[i]) < Rank(body[j])
    /\ \A i \in 1..Len(body) : Rank(body[i]) = 0 => Len(body) = 1
FetchOutcomesOnce == {f \in FetchOutcomes : f.kind = "json" => OnceInOrder(f.body)}

\* A variant with the fault C2 must detect, an earlier record kept on a duplicate name
RECURSIVE BuildDictFirstWins(_, _, _)
BuildDictFirstWins(body, i, acc) ==
    IF i > Len(body) THEN acc
    ELSE BuildDictFirstWins(body, i + 1,
            [n \in DOMAIN acc \cup {body[i].name} |->
                IF n \in DOMAIN acc THEN acc[n] ELSE body[i]])
\* {container["name"]: container for container in data}: entries are written
\* in array order, a later record overwriting an earlier one of the same name
RECURSIVE BuildDict(_, _, _)
BuildDict(body, i, acc) ==
    IF i > Len(body) THEN acc
    ELSE BuildDict(body, i + 1,
            [n \in DOMAIN acc \cup {body[i].name} |->
                IF n = body[i].name THEN body[i] ELSE acc[n]])

\* _async_update_data: the mapping, or UpdateFailed with the message's prefix.
\* container["name"] on a record without the key raises KeyError, which the
\* last handler (except Exception) turns into UpdateFailed as well.
UpdateData(f) ==
    IF f.kind = "timeout"
    THEN [ok |-> FALSE, raised |-> "UpdateFailed", msg |-> "Timeout fetching data from WUD"]
    ELSE IF f.kind = "client_error"
    THEN [ok |-> FALSE, raised |-> "UpdateFailed", msg |-> "Client error fetching data from WUD"]
    ELSE IF \E i \in 1..Len(f.body) : "name" \notin DOMAIN f.body[i]
    THEN [ok |-> FALSE, raised |-> "UpdateFailed", msg |-> "Unexpected error fetching data from WUD"]
    ELSE [ok |-> TRUE, value |-> BuildDict(f.body, 1, EmptyDict)]

(* ------------------------------- state -------------------------------- *)
VARIABLES
    phase,                \* the config entry: "no_entry", "not_loaded", "forwarding"
                          \* (set-up awaits async_forward_entry_setups) or "loaded"
    domain_data,          \* hass.data[COORDINATOR_KEY]: entry ids with a stored coordinator
    data,                 \* coordinator.data: None or the snapshot
    last_update_success,  \* coordinator.last_update_success
    good,                 \* history: the mapping built by the latest successful refresh
    entities,             \* container names of the entities added to the platform
    pending,              \* the bag of handler calls that wait for their HTTP answer
    out                   \* what the latest step of a handler was given, requested,
                          \* returned, raised

vars == <<phase, domain_data, data, last_update_success, good, entities, pending, out>>

NoResp == [kind |-> "none"]
\* a handler's own result: the requests it issued, what it returned or raised,
\* and the error it logged
Result(calls, ret, raised, log) ==
    [calls |-> calls, ret |-> ret, raised |-> raised, log |-> log]
Call(method, url) == [method |-> method, url |-> url]
Out(op, key, resp, calls, ret, raised) ==
    [op |-> op, key |-> key, resp |-> resp] @@ Result(calls, ret, raised, "")

\* A coordinator as __init__ leaves it: no data yet, last_update_success True
Init ==
    /\ phase = "no_entry"
    /\ domain_data = {}
    /\ data = None
    /\ last_update_success = TRUE
    /\ good = None
    /\ entities = {}
    /\ pending = EmptyBag
    /\ out = Out("none", "", NoResp, <<>>, None, "")

\* update.async_setup_entry: what the platform raised and logged and the names
\* it built entities for.  It returns early, with an error logged, when no
\* coordinator is stored for the entry and when the coordinator's last update
\* failed.  Iterating over a coordinator.data that is None raises TypeError
\* before async_add_entities is called.
PlatformEntities(stored, d, lus) ==
    IF ~stored
    THEN [raised |-> "", log |-> "No WUD coordinator found", entities |-> {}]
    ELSE IF ~lus
    THEN [raised |-> "", log |-> "Failed to retrieve data from WUD at startup",
          entities |-> {}]
    ELSE IF d = None THEN [raised |-> "TypeError", log |-> "", entities |-> {}]
    ELSE [raised |-> "", log |-> "", entities |-> DOMAIN d]

\* A variant with the fault C4 must detect, the coordinator stored and the
\* platform forwarded although the first refresh failed
SetupEntryStoresAnyway(f) ==
    LET u == UpdateData(f) IN
    /\ phase = "not_loaded"
    /\ UNCHANGED <<pending, entities>>
    /\ IF u.ok
       THEN /\ data' = u.value
            /\ good' = u.value
            /\ last_update_success' = TRUE
            /\ domain_data' = domain_data \cup {EntryId}
            /\ phase' = "forwarding"
            /\ out' = Out("setup", "", f, <<Call("GET", CoordinatorUrl)>>, None, "")
       ELSE /\ data' = None
            /\ good' = None
            /\ last_update_success' = FALSE
            /\ domain_data' = domain_data \cup {EntryId}
            /\ phase' = "forwarding"
            /\ out' = [Out("setup", "", f, <<Call("GET", CoordinatorUrl)>>, None,
                           "ConfigEntryNotReady") EXCEPT !.log = u.msg]
\* __init__.async_setup_entry up to its await of async_forward_entry_setups.
\* A new coordinator does its first refresh; async_config_entry_first_refresh
\* raises ConfigEntryNotReady when that refresh failed, which ends the set-up
\* before the coordinator is stored.  Otherwise the coordinator is stored and
\* the set-up waits for the platform: the entry has a stored coordinator and
\* no entity, and the set-up has not returned.
SetupEntry(f) ==
    LET u == UpdateData(f) IN
    /\ phase = "not_loaded"
    /\ UNCHANGED <<pending, entities>>
    /\ IF u.ok
       THEN /\ data' = u.value
            /\ good' = u.value
            /\ last_update_success' = TRUE
            /\ domain_data' = domain_data \cup {EntryId}
            /\ phase' = "forwarding"
            /\ out' = Out("setup", "", f, <<Call("GET", CoordinatorUrl)>>, None, "")
       ELSE /\ data' = None
            /\ good' = None
            /\ last_update_success' = FALSE
            /\ UNCHANGED <<domain_data, phase>>
            /\ out' = [Out("setup", "", f, <<Call("GET", CoordinatorUrl)>>, None,
                           "ConfigEntryNotReady") EXCEPT !.log = u.msg]

\* The rest of __init__.async_setup_entry: async_forward_entry_setups runs the
\* update platform's async_setup_entry on the state it finds (the stored
\* coordinator, its last_update_success and its data), the entities it built
\* are added, and the set-up returns True.  What the platform raises is logged
\* by the platform loader and does not reach the set-up.  The coordinator was
\* constructed by this set-up and has no listener before the entities are
\* added here, so no periodic refresh of it runs while the set-up waits.
ForwardEntrySetups ==
    LET r == PlatformEntities(EntryId \in domain_data, data, last_update_success) IN
    /\ phase = "forwarding"
    /\ entities' = r.entities
    /\ phase' = "loaded"
    /\ out' = [Out("forward", "", NoResp, <<>>, Some(TRUE), "")
                  EXCEPT !.log = IF r.raised # "" THEN r.raised ELSE r.log]
    /\ UNCHANGED <<domain_data, data, last_update_success, good, pending>>

\* A variant with the fault C1 must detect, a failed refresh that empties the snapshot
RefreshClearsOnFailure(f) ==
    LET u == UpdateData(f) IN
    /\ phase = "loaded"
    /\ IF u.ok
       THEN /\ data' = u.value
            /\ good' = u.value
            /\ last_update_success' = TRUE
            /\ out' = Out("refresh", "", f, <<Call("GET", CoordinatorUrl)>>, None, "")
       ELSE /\ data' = EmptyDict
            /\ last_update_success' = FALSE
            /\ out' = [Out("refresh", "", f, <<Call("GET", CoordinatorUrl)>>, None,
                           u.raised) EXCEPT !.log = u.msg]
            /\ UNCHANGED good
    /\ UNCHANGED <<phase, domain_data, entities, pending>>
\* A variant with the fault C3 must detect, a refresh that rebuilds the entities
RefreshReenumerates(f) ==
    LET u == UpdateData(f) IN
    /\ phase = "loaded"
    /\ IF u.ok
       THEN /\ data' = u.value
            /\ good' = u.value
            /\ last_update_success' = TRUE
            /\ entities' = DOMAIN u.value
            /\ out' = Out("refresh", "", f, <<Call("GET", CoordinatorUrl)>>, None, "")
       ELSE /\ last_update_success' = FALSE
            /\ out' = [Out("refresh", "", f, <<Call("GET", CoordinatorUrl)>>, None,
                           u.raised) EXCEPT !.log = u.msg]
            /\ UNCHANGED <<data, good, entities>>
    /\ UNCHANGED <<phase, domain_data, pending>>
\* One periodic refresh of the stored coordinator of a loaded entry.  The
\* coordinator refreshes on its interval for its listeners, and its listeners
\* are the entities, each of which registers when it is added
\* (async_added_to_hass); the step is allowed for every loaded entry.  The
\* base class assigns the returned mapping to data and sets
\* last_update_success; when
\* _async_update_data raises UpdateFailed it leaves data as it is and sets
\* last_update_success to False.
Refresh(f) ==
    LET u == UpdateData(f) IN
    /\ phase = "loaded"
    /\ IF u.ok
       THEN /\ data' = u.value
            /\ good' = u.value
            /\ last_update_success' = TRUE
            /\ out' = Out("refresh", "", f, <<Call("GET", CoordinatorUrl)>>, None, "")
       ELSE /\ last_update_success' = FALSE
            /\ out' = [Out("refresh", "", f, <<Call("GET", CoordinatorUrl)>>, None,
                           u.raised) EXCEPT !.log = u.msg]
            /\ UNCHANGED <<data, good>>
    /\ UNCHANGED <<phase, domain_data, entities, pending>>

\* async_unload_entry; unload_ok is what async_unload_platforms answers.
\* When the platforms unload, the platform's entities are removed and the
\* coordinator is popped (the next set-up constructs a new coordinator);
\* when they do not, nothing is popped.  unload_ok is returned.
UnloadEntry(unload_ok) ==
    /\ phase = "loaded"
    /\ IF unload_ok
       THEN /\ phase' = "not_loaded"
            /\ domain_data' = domain_data \ {EntryId}
            /\ entities' = {}
            /\ data' = None
            /\ good' = None
            /\ last_update_success' = TRUE
       ELSE UNCHANGED <<phase, domain_data, entities, data, good, last_update_success>>
    /\ out' = Out("unload", "", NoResp, <<>>, Some(unload_ok), "")
    /\ UNCHANGED pending

\* async_reload_entry, the update listener the platform registered:
\* hass.config_entries.async_reload unloads the entry as async_unload_entry
\* does and, when that succeeded, sets it up again (SetupEntry, on the entry
\* that is then not loaded).  The listener returns nothing.
ReloadEntry(unload_ok) ==
    /\ phase = "loaded"
    /\ IF unload_ok
       THEN /\ phase' = "not_loaded"
            /\ domain_data' = domain_data \ {EntryId}
            /\ entities' = {}
            /\ data' = None
            /\ good' = None
            /\ last_update_success' = TRUE
       ELSE UNCHANGED <<phase, domain_data, entities, data, good, last_update_success>>
    /\ out' = Out("reload", "", NoResp, <<>>, None, "")
    /\ UNCHANGED pending

(* ---------------------------- install trigger ------------------------ *)
\* What the POST to the trigger endpoint can give: a response with a status,
\* an aiohttp.ClientError, or any other exception (a timeout among them).
PostOutcomes ==
    {[kind |-> "status", status |-> 200], [kind |-> "status", status |-> 500],
     [kind |-> "client_error"], [kind |-> "exception"]}

\* container_data.get("labels", {}).get("wud.trigger.hass", {})
TriggerName(rec) == GetOr(GetOr(rec, "labels", EmptyDict), TriggerLabel, EmptyDict)
\* f"{self.coordinator.url}/{container_id}/triggers/{trigger_url_path}"
TriggerEndpoint(id, trigger_name) ==
    CoordinatorUrl \o Slash \o id \o TriggersPath \o Replace(trigger_name, Dot, Slash)

\* the try block of async_install on the outcome p of the POST sent to url:
\* every outcome is logged, nothing is returned or raised
InstallAnswered(url, p) ==
    Result(<<Call("POST", url)>>, None, "",
           IF p.kind = "status"
           THEN IF p.status = 200 THEN "" ELSE "Failed to trigger update"
           ELSE IF p.kind = "client_error" THEN "Error communicating with WUD API"
           ELSE "Unexpected error during update")

\* A variant with the fault C5 must detect, the test of the id left out
InstallRequestNoIdTest(d, key) ==
    IF ContainerData(d, key).raised # ""
    THEN [done |-> TRUE, result |-> Result(<<>>, None, ContainerData(d, key).raised, "")]
    ELSE IF ~HasRecord(d, key)
    THEN [done |-> TRUE, result |-> Result(<<>>, None, "", "Container data not found")]
    ELSE IF DOMAIN TriggerName(ContainerData(d, key).ret.val) = {}
    THEN [done |-> TRUE, result |-> Result(<<>>, None, "", "HASS Trigger Label not found")]
    ELSE [done |-> FALSE,
          url |-> TriggerEndpoint(GetOr(ContainerData(d, key).ret.val, "id", <<"N", "o", "n", "e">>),
                                  TriggerName(ContainerData(d, key).ret.val))]
\* async_install on the snapshot d up to its await: it has returned (done,
\* with its result) or it sends the POST to url
InstallRequest(d, key) ==
    IF ContainerData(d, key).raised # ""
    THEN [done |-> TRUE, result |-> Result(<<>>, None, ContainerData(d, key).raised, "")]
    ELSE IF ~HasRecord(d, key)
    THEN [done |-> TRUE, result |-> Result(<<>>, None, "", "Container data not found")]
    ELSE IF DOMAIN TriggerName(ContainerData(d, key).ret.val) = {}
    THEN [done |-> TRUE, result |-> Result(<<>>, None, "", "HASS Trigger Label not found")]
    ELSE IF ~Truthy(Get(ContainerData(d, key).ret.val, "id"))
    THEN [done |-> TRUE, result |-> Result(<<>>, None, "", "No container id")]
    ELSE [done |-> FALSE,
          url |-> TriggerEndpoint(ContainerData(d, key).ret.val.id,
                                  TriggerName(ContainerData(d, key).ret.val))]

\* async_install on the entity of `key`, run on the snapshot d it reads when
\* it is called, with the POST's outcome `p`
InstallResult(d, key, p) ==
    IF InstallRequest(d, key).done THEN InstallRequest(d, key).result
    ELSE InstallAnswered(InstallRequest(d, key).url, p)

\* a call that waits: the handler, the entity, the record it read and the
\* URL of its request
Waiting(op, key, d, url) ==
    [op |-> op, key |-> key, seen |-> ContainerData(d, key).ret, url |-> url]

\* async_install is called: it reads the entity's record from the snapshot.
\* Without a record, a label or an id it returns at once; otherwise it sends
\* the POST and waits for the answer, and other steps, other calls among
\* them, run meanwhile.
Install(key) ==
    LET r == InstallRequest(data, key) IN
    /\ phase = "loaded"
    /\ key \in entities
    /\ IF r.done
       THEN /\ out' = [op |-> "install", key |-> key, resp |-> NoResp,
                       seen |-> ContainerData(data, key).ret] @@ r.result
            /\ UNCHANGED pending
       ELSE /\ BagCardinality(pending) < MaxWaiting
            /\ pending' = pending (+) SetToBag({Waiting("install", key, data, r.url)})
            /\ UNCHANGED out
    /\ UNCHANGED <<phase, domain_data, data, last_update_success, good, entities>>

\* A variant with the fault C12 must detect, the record marked as updated when
\* the trigger answers 200
InstallOptimistic(call, p) ==
    /\ BagIn(call, pending)
    /\ call.op = "install"
    /\ out' = [op |-> "install", key |-> call.key, resp |-> p, seen |-> call.seen]
                @@ InstallAnswered(call.url, p)
    /\ pending' = pending (-) SetToBag({call})
    /\ data' = IF p.kind = "status" /\ p.status = 200 /\ data # None /\ call.key \in DOMAIN data
               THEN [data EXCEPT ![call.key] =
                        [k \in DOMAIN data[call.key] \cup {"updateAvailable"} |->
                            IF k = "updateAvailable" THEN FALSE ELSE data[call.key][k]]]
               ELSE data
    /\ UNCHANGED <<phase, domain_data, last_update_success, good, entities>>
\* the POST of a waiting async_install is answered: the call logs by the
\* answer and returns; it changes nothing of the coordinator or the entity
InstallAnswer(call, p) ==
    /\ BagIn(call, pending)
    /\ call.op = "install"
    /\ out' = [op |-> "install", key |-> call.key, resp |-> p, seen |-> call.seen]
                @@ InstallAnswered(call.url, p)
    /\ pending' = pending (-) SetToBag({call})
    /\ UNCHANGED <<phase, domain_data, data, last_update_success, good, entities>>

(* ------------------------------ release notes ------------------------- *)
\* What the GET to the GitHub API can give: a response with a status and,
\* for 200, a JSON object with or without "body"; TimeoutError after 10 s;
\* an aiohttp.ClientError; any other exception.
Notes == <<"n", "o", "t", "e", "s">>
GitHubOutcomes ==
    {[kind |-> "status", status |-> 200, json |-> [body |-> Notes]],
     [kind |-> "status", status |-> 200, json |-> EmptyDict],
     [kind |-> "status", status |-> 403],
     [kind |-> "status", status |-> 404],
     [kind |-> "status", status |-> 500],
     [kind |-> "timeout"], [kind |-> "client_error"], [kind |-> "exception"]}

\* the GitHub API URL for a supported release URL
ApiUrl(url) ==
    IF Contains(url, ReleasesTag) \/ Contains(url, TagsPath)
    THEN IF Contains(Replace(url, GitHubWeb, GitHubApi), ReleasesTag)
         THEN Replace(Replace(url, GitHubWeb, GitHubApi), ReleasesTag, ReleasesTags)
         ELSE Replace(url, GitHubWeb, GitHubApi)
    ELSE Replace(url, GitHubWeb, GitHubApi)
Supported(url) ==
    Contains(url, ReleasesTag) \/ Contains(url, TagsPath) \/ Contains(url, ReleasesLatest)

\* A variant with the fault C7 must detect, the error of raise_for_status not caught
FetchNotesPropagating(url, g) ==
    IF g.kind = "status"
    THEN IF g.status = 403
         THEN Result(<<Call("GET", url)>>, None, "", "GitHub API rate limit exceeded")
         ELSE IF g.status >= 400
         THEN Result(<<Call("GET", url)>>, None, "ClientResponseError", "")
         ELSE Result(<<Call("GET", url)>>, Get(g.json, "body"), "", "")
    ELSE IF g.kind = "timeout"
    THEN Result(<<Call("GET", url)>>, None, "", "Timeout fetching release notes from GitHub")
    ELSE IF g.kind = "client_error"
    THEN Result(<<Call("GET", url)>>, None, "", "Error fetching release notes from GitHub API")
    ELSE Result(<<Call("GET", url)>>, None, "", "Unexpected error")
\* the try block of async_release_notes on the outcome g of the GET.
\* raise_for_status raises ClientResponseError, an aiohttp.ClientError, for a
\* status of 400 or more; the handlers of the try return None for everything.
FetchNotes(url, g) ==
    IF g.kind = "status"
    THEN IF g.status = 403
         THEN Result(<<Call("GET", url)>>, None, "", "GitHub API rate limit exceeded")
         ELSE IF g.status >= 400
         THEN Result(<<Call("GET", url)>>, None, "", "Error fetching release notes from GitHub API")
         ELSE Result(<<Call("GET", url)>>, Get(g.json, "body"), "", "")
    ELSE IF g.kind = "timeout"
    THEN Result(<<Call("GET", url)>>, None, "", "Timeout fetching release notes from GitHub")
    ELSE IF g.kind = "client_error"
    THEN Result(<<Call("GET", url)>>, None, "", "Error fetching release notes from GitHub API")
    ELSE Result(<<Call("GET", url)>>, None, "", "Unexpected error")

\* async_release_notes on the snapshot d up to its await: it has returned
\* (done, with its result) or it sends the GET to url.  release_url is read
\* outside the try block, so what it raises leaves the method.
ReleaseNotesRequest(d, key) ==
    IF ContainerData(d, key).raised # ""
    THEN [done |-> TRUE, result |-> Result(<<>>, None, ContainerData(d, key).raised, "")]
    ELSE IF ~HasRecord(d, key)
    THEN [done |-> TRUE, result |-> Result(<<>>, None, "", "")]
    ELSE LET url == release_url(d, key) IN
         IF url.raised # ""
         THEN [done |-> TRUE, result |-> Result(<<>>, None, url.raised, "")]
         ELSE IF Truthy(url.ret) /\ Contains(url.ret.val, GitHubHost)
         THEN IF Supported(url.ret.val)
              THEN [done |-> FALSE, url |-> ApiUrl(url.ret.val)]
              ELSE [done |-> TRUE,
                    result |-> Result(<<>>, None, "", "Unsupported GitHub URL format")]
         ELSE [done |-> TRUE, result |-> Result(<<>>, None, "", "")]

\* async_release_notes on the entity of `key`, run on the snapshot d it reads
\* when it is called, with the GET's outcome g
ReleaseNotesResult(d, key, g) ==
    LET r == ReleaseNotesRequest(d, key) IN
    IF r.done THEN r.result ELSE FetchNotes(r.url, g)

\* async_release_notes is called: it reads the record and release_url.  With
\* no supported GitHub URL it returns at once (or release_url raises);
\* otherwise it sends the GET and waits for the answer.
ReleaseNotes(key) ==
    LET r == ReleaseNotesRequest(data, key) IN
    /\ phase = "loaded"
    /\ key \in entities
    /\ IF r.done
       THEN /\ out' = [op |-> "release_notes", key |-> key, resp |-> NoResp,
                       seen |-> ContainerData(data, key).ret] @@ r.result
            /\ UNCHANGED pending
       ELSE /\ BagCardinality(pending) < MaxWaiting
            /\ pending' = pending (+) SetToBag({Waiting("release_notes", key, data, r.url)})
            /\ UNCHANGED out
    /\ UNCHANGED <<phase, domain_data, data, last_update_success, good, entities>>

\* the GET of a waiting async_release_notes is answered
ReleaseNotesAnswer(call, g) ==
    /\ BagIn(call, pending)
    /\ call.op = "release_notes"
    /\ out' = [op |-> "release_notes", key |-> call.key, resp |-> g, seen |-> call.seen]
                @@ FetchNotes(call.url, g)
    /\ pending' = pending (-) SetToBag({call})
    /\ UNCHANGED <<phase, domain_data, data, last_update_success, good, entities>>

\* a read of the release_url property
ReadReleaseUrl(key) ==
    LET r == release_url(data, key) IN
    /\ phase = "loaded"
    /\ key \in entities
    /\ out' = [op |-> "release_url", key |-> key, resp |-> NoResp]
                @@ Result(<<>>, r.ret, r.raised, "")
    /\ UNCHANGED <<phase, domain_data, data, last_update_success, good, entities, pending>>

\* a read of the installed_version property
ReadInstalledVersion(key) ==
    /\ phase = "loaded"
    /\ key \in entities
    /\ out' = [op |-> "installed_version", key |-> key, resp |-> NoResp]
                @@ Result(<<>>, installed_version(data, key).ret,
                          installed_version(data, key).raised, "")
    /\ UNCHANGED <<phase, domain_data, data, last_update_success, good, entities, pending>>

\* a read of the latest_version property
ReadLatestVersion(key) ==
    /\ phase = "loaded"
    /\ key \in entities
    /\ out' = [op |-> "latest_version", key |-> key, resp |-> NoResp]
                @@ Result(<<>>, latest_version(data, key).ret,
                          latest_version(data, key).raised, "")
    /\ UNCHANGED <<phase, domain_data, data, last_update_success, good, entities, pending>>

\* a read of the in_progress property
ReadInProgress(key) ==
    /\ phase = "loaded"
    /\ key \in entities
    /\ out' = [op |-> "in_progress", key |-> key, resp |-> NoResp]
                @@ Result(<<>>, Some(in_progress(data, key)), "", "")
    /\ UNCHANGED <<phase, domain_data, data, last_update_success, good, entities, pending>>

(* ------------------------------ config flow --------------------------- *)
\* What the connectivity probe session.get(url, auth=auth, timeout=10) can
\* give: a response with a status, an aiohttp.ClientError, TimeoutError when
\* the 10 s total elapse (not an aiohttp.ClientError), any other exception.
ProbeOutcomes ==
    {[kind |-> "status", status |-> 200], [kind |-> "status", status |-> 401],
     [kind |-> "status", status |-> 500],
     [kind |-> "client_error"], [kind |-> "timeout"], [kind |-> "exception"]}

FlowResult(type, errors) == [type |-> type, errors |-> errors]

\* A variant with the fault C8 must detect, the status of the response not tested
StepUserIgnoresStatus(p, configured) ==
    IF p.kind = "status"
    THEN IF configured THEN FlowResult("form", "unknown")
         ELSE FlowResult("create_entry", "")
    ELSE IF p.kind = "client_error" THEN FlowResult("form", "cannot_connect")
    ELSE FlowResult("form", "unknown")
\* async_step_user with user input and the probe's outcome p; `configured`
\* says an entry with this unique id exists, and then
\* _abort_if_unique_id_configured raises AbortFlow inside the try block, where
\* the last handler (except Exception) takes it.
StepUser(p, configured) ==
    IF p.kind = "status"
    THEN IF p.status # 200 THEN FlowResult("form", "cannot_connect")
         ELSE IF configured THEN FlowResult("form", "unknown")
         ELSE FlowResult("create_entry", "")
    ELSE IF p.kind = "client_error" THEN FlowResult("form", "cannot_connect")
    ELSE FlowResult("form", "unknown")

\* what the two handlers of the try block log with _LOGGER.exception
StepUserLog(p, configured) ==
    IF p.kind = "status"
    THEN IF p.status = 200 /\ configured THEN "Unexpected error" ELSE ""
    ELSE IF p.kind = "client_error" THEN "Client error connecting to WUD"
    ELSE "Unexpected error"

\* the step opened without input: the form, no probe
ConfigFlowShowForm ==
    /\ out' = [op |-> "config_flow", key |-> "", resp |-> NoResp]
                @@ Result(<<>>, FlowResult("form", ""), "", "")
    /\ UNCHANGED <<phase, domain_data, data, last_update_success, good, entities, pending>>

\* the step submitted: the probe, then the entry or the form with an error
ConfigFlowUser(p) ==
    /\ out' = [op |-> "config_flow", key |-> "", resp |-> p]
                @@ Result(<<Call("GET", CoordinatorUrl)>>,
                          StepUser(p, phase # "no_entry"), "",
                          StepUserLog(p, phase # "no_entry"))
    /\ phase' = IF StepUser(p, phase # "no_entry").type = "create_entry"
                THEN "not_loaded" ELSE phase
    /\ UNCHANGED <<domain_data, data, last_update_success, good, entities, pending>>

(* ---------------------------- specification --------------------------- *)
Names == {"a", "b"}

\* the entry and its coordinator alone, unloaded and set up again, over every
\* fetched array
NextCoordinator ==
    \/ ConfigFlowShowForm
    \/ \E p \in ProbeOutcomes : ConfigFlowUser(p)
    \/ \E f \in FetchOutcomes : SetupEntry(f)
    \/ ForwardEntrySetups
    \/ \E f \in FetchOutcomes : Refresh(f)
    \/ \E unload_ok \in BOOLEAN : UnloadEntry(unload_ok)
    \/ \E unload_ok \in BOOLEAN : ReloadEntry(unload_ok)

SpecCoordinator == Init /\ [][NextCoordinator]_vars

\* every handler of the integration: the entry set up, unloaded and reloaded,
\* its coordinator and its entities, with the calls of the entities that wait
\* for their answer (a call outlives the entity that made it)
Next ==
    \/ ConfigFlowShowForm
    \/ \E p \in ProbeOutcomes : ConfigFlowUser(p)
    \/ \E f \in FetchOutcomesOnce : SetupEntry(f)
    \/ ForwardEntrySetups
    \/ \E f \in FetchOutcomesOnce : Refresh(f)
    \/ \E unload_ok \in BOOLEAN : UnloadEntry(unload_ok)
    \/ \E unload_ok \in BOOLEAN : ReloadEntry(unload_ok)
    \/ \E k \in Names : Install(k)
    \/ \E call \in BagToSet(pending), p \in PostOutcomes : InstallAnswer(call, p)
    \/ \E k \in Names : ReleaseNotes(k)
    \/ \E call \in BagToSet(pending), g \in GitHubOutcomes : ReleaseNotesAnswer(call, g)
    \/ \E k \in Names : ReadReleaseUrl(k)
    \/ \E k \in Names : ReadInstalledVersion(k)
    \/ \E k \in Names : ReadLatestVersion(k)
    \/ \E k \in Names : ReadInProgress(k)

Spec == Init /\ [][Next]_vars

(* ------------- the release URL over drawn links and tags -------------- *)
LinkPrefixes ==
    {GitHubWeb \o Repo \o ReleasesTag \o <<"v", "1", ".", "2", ".">>,
     GitHubWeb \o Repo \o ReleasesTag \o <<"v", "1", ".", "u", "n", "d", "e", "f", "i", "n", "e", "d", ".">>,
     GitHubWeb \o <<"u", "n", "d", "e", "f", "i", "n", "e", "d", "/", "r">> \o ReleasesTag \o <<"v", "1", ".">>,
     <<"h", "t", "t", "p", "s", ":", "/", "/", "e", "x", "a", "m", "p", "l", "e", ".", "o", "r", "g", "/">>}
LinkSuffixes == {<<>>, <<"u", "n", "d", "e", "f", "i", "n", "e", "d">>, <<"3">>, <<"u", "n", "d", "e", "f", "i", "n", "e", "d", "/", "n", "o", "t", "e", "s">>}
UrlLinks == {None, Some(<<>>)} \cup {Some(p \o x) : p \in LinkPrefixes, x \in LinkSuffixes}
TagChars == {"v", ".", "1", "2"}
UrlTags == {None} \cup {Some(t) : t \in SeqsUpTo(TagChars, MaxTagLen)}

\* a record whose chosen link and tag are the given ones (a None is a
\* missing key); the fields release_url must not choose hold other values
UrlRecord(ua, link, tag) ==
    IF ua
    THEN [name |-> "a", updateAvailable |-> TRUE, link |-> LinkElsewhere,
          image |-> Image(<<"0">>),
          result |-> (IF link = None THEN EmptyDict ELSE [link |-> link.val])
                       @@ (IF tag = None THEN EmptyDict ELSE [tag |-> tag.val])]
    ELSE ([name |-> "a", updateAvailable |-> FALSE,
           result |-> [link |-> LinkElsewhere, tag |-> <<"0">>]]
            @@ (IF link = None THEN EmptyDict ELSE [link |-> link.val]))
            @@ (IF tag = None THEN EmptyDict ELSE [image |-> Image(tag.val)])

\* set up from a fetch of one record; then the entity is read
InitUrl ==
    \E ua \in BOOLEAN, link \in UrlLinks, tag \in UrlTags :
        /\ phase = "loaded"
        /\ domain_data = {EntryId}
        /\ data = [n \in {"a"} |-> UrlRecord(ua, link, tag)]
        /\ good = data
        /\ last_update_success = TRUE
        /\ entities = {"a"}
        /\ pending = EmptyBag
        /\ out = Out("forward", "", NoResp, <<>>, Some(TRUE), "")

NextUrl ==
    \/ \E k \in Names : ReadReleaseUrl(k)
    \/ \E k \in Names : ReleaseNotes(k)
    \/ \E call \in BagToSet(pending), g \in GitHubOutcomes : ReleaseNotesAnswer(call, g)

SpecUrl == InitUrl /\ [][NextUrl]_vars

(* ------------------------------- claims ------------------------------- *)
\* a fetch outcome on which _async_update_data cannot build the mapping
FetchFailed(f) ==
    \/ f.kind \in {"timeout", "client_error"}
    \/ f.kind = "json" /\ \E i \in 1..Len(f.body) : "name" \notin DOMAIN f.body[i]

\* C1: a periodic refresh that fails (timeout, client error, or an exception
\* while the mapping is built) leaves the snapshot equal to the mapping of the
\* latest successful refresh, sets last_update_success to false and is
\* reported as UpdateFailed.
C1_FailedRefreshKeepsSnapshot ==
    (out.op = "refresh" /\ FetchFailed(out.resp)) =>
        /\ data = good
        /\ last_update_success = FALSE
        /\ out.raised = "UpdateFailed"
C1_Witness ==
    /\ out.op = "refresh"
    /\ out.resp.kind = "timeout"
    /\ data # None
    /\ DOMAIN data = {"a", "b"}
    /\ last_update_success = FALSE

\* C2: the snapshot built from a fetched array has exactly one entry per
\* distinct name of the array, and the entry of a name is the record of its
\* last occurrence.
C2_OneEntryPerNameLastWins ==
    (out.op \in {"refresh", "setup"} /\ out.resp.kind = "json" /\ ~FetchFailed(out.resp)) =>
        /\ data # None
        /\ DOMAIN data = {out.resp.body[i].name : i \in 1..Len(out.resp.body)}
        /\ \A i \in 1..Len(out.resp.body) :
              (\A j \in (i + 1)..Len(out.resp.body) :
                    out.resp.body[j].name # out.resp.body[i].name)
                => data[out.resp.body[i].name] = out.resp.body[i]
C2_Witness ==
    /\ out.op = "refresh"
    /\ out.resp.kind = "json"
    /\ Len(out.resp.body) = 2
    /\ "name" \in DOMAIN out.resp.body[1]
    /\ "name" \in DOMAIN out.resp.body[2]
    /\ out.resp.body[1].name = out.resp.body[2].name
    /\ out.resp.body[1] # out.resp.body[2]
    /\ data[out.resp.body[2].name] = out.resp.body[2]

\* C3: the platform's set-up finds a stored coordinator whose last update
\* succeeded and which holds a snapshot, leaves the snapshot as it is and
\* makes the entities, none before, exactly the snapshot's keys; while the
\* entry stays loaded no step, a refresh that adds or drops container names
\* included, adds or removes an entity.
C3_EntitiesFixedAtSetup ==
    [][/\ phase' = "forwarding" => entities' = {}
       /\ (phase = "forwarding" /\ phase' = "loaded") =>
              /\ EntryId \in domain_data
              /\ last_update_success
              /\ data # None
              /\ data' = data
              /\ entities' = DOMAIN data
       /\ (phase = "loaded" /\ phase' = "loaded") => entities' = entities]_vars
C3_Witness ==
    /\ phase = "loaded"
    /\ out.op = "refresh"
    /\ out.raised = ""
    /\ entities = {"a"}
    /\ DOMAIN data = {"b"}

\* C4: a set-up whose first refresh fails raises ConfigEntryNotReady and
\* leaves the entry not loaded with no coordinator stored and no entity; a
\* coordinator is stored only by a set-up whose first refresh succeeded, and
\* entities come into being only in the platform's set-up of an entry whose
\* stored coordinator holds the snapshot of a refresh that succeeded.
C4_FailedFirstRefreshFailsSetup ==
    [][/\ (phase = "not_loaded" /\ out'.op = "setup" /\ FetchFailed(out'.resp)) =>
              /\ out'.raised = "ConfigEntryNotReady"
              /\ EntryId \notin domain_data'
              /\ entities' = {}
              /\ phase' = "not_loaded"
       /\ (EntryId \in domain_data' /\ EntryId \notin domain_data) =>
              /\ out'.op = "setup"
              /\ ~FetchFailed(out'.resp)
              /\ out'.raised = ""
              /\ data' # None
              /\ last_update_success'
       /\ (entities' # entities /\ entities' # {}) =>
              /\ phase = "forwarding"
              /\ EntryId \in domain_data
              /\ data # None
              /\ last_update_success]_vars
C4_Witness ==
    /\ out.op = "setup"
    /\ out.resp.kind = "client_error"
    /\ out.raised = "ConfigEntryNotReady"
    /\ entities = {}

\* C5: async_install raises nothing; it issues no request when the entity's
\* key is not in the snapshot it reads, or the record has no wud.trigger.hass
\* label, or no id; when it issues a request it is one POST to
\* {url}/{id}/triggers/{label with every "." turned into "/"} and all three
\* are present.  out.seen is what the call read from the snapshot.
InstallKeyPresent == out.seen # None
InstallLabelPresent ==
    /\ "labels" \in DOMAIN out.seen.val
    /\ TriggerLabel \in DOMAIN out.seen.val.labels
InstallIdPresent == "id" \in DOMAIN out.seen.val
C5_InstallPostsOnlyWhenConfigured ==
    out.op = "install" =>
        /\ out.raised = ""
        /\ (~InstallKeyPresent \/ ~InstallLabelPresent \/ ~InstallIdPresent)
              => out.calls = <<>>
        /\ out.calls # <<>> =>
              /\ InstallKeyPresent /\ InstallLabelPresent /\ InstallIdPresent
              /\ out.calls =
                    <<[method |-> "POST",
                       url |-> CoordinatorUrl \o <<"/">> \o out.seen.val.id
                                 \o TriggersPath
                                 \o [i \in 1..Len(out.seen.val.labels[TriggerLabel]) |->
                                        IF out.seen.val.labels[TriggerLabel][i] = "."
                                        THEN "/"
                                        ELSE out.seen.val.labels[TriggerLabel][i]]]>>
C5_Witness ==
    /\ out.op = "install"
    /\ out.resp = [kind |-> "status", status |-> 200]
    /\ Len(out.calls) = 1
    /\ out.calls[1].url = CoordinatorUrl \o <<"/", "c", "2", "/", "t", "r", "i", "g", "g", "e", "r", "s", "/", "a", "/", "b", "/", "c">>

\* C6: async_release_notes never raises: it returns the release body or None.
C6_ReleaseNotesNeverRaise ==
    out.op = "release_notes" =>
        /\ out.raised = ""
        /\ out.ret \in {None, Some(Notes)}

\* C7 as claimed: a response with a non-success status other than 403 is
\* raised to the caller of async_release_notes.
C7_OtherStatusRaised ==
    (/\ out.op = "release_notes"
     /\ out.calls # <<>>
     /\ out.resp.kind = "status"
     /\ out.resp.status >= 400
     /\ out.resp.status # 403) => out.raised # ""
\* C7 as amended: such a response gives None, as a 403 does; the error that
\* raise_for_status raises is caught and logged as a fetch error and does not
\* leave async_release_notes.
C7_OtherStatusGivesNone ==
    (/\ out.op = "release_notes"
     /\ out.calls # <<>>
     /\ out.resp.kind = "status"
     /\ out.resp.status >= 400
     /\ out.resp.status # 403) =>
        /\ out.raised = ""
        /\ out.ret = None
        /\ out.log = "Error fetching release notes from GitHub API"
C7_Witness ==
    /\ out.op = "release_notes"
    /\ out.resp = [kind |-> "status", status |-> 404]
    /\ Len(out.calls) = 1
    /\ out.ret = None

\* C8 as claimed: an entry is created only on a probe answered 200; a non-200
\* answer, a client error or a probe timeout gives the form with
\* "cannot_connect" and no entry.
C8_ProbeFailureIsCannotConnect ==
    (out.op = "config_flow" /\ out.resp # NoResp) =>
        /\ out.ret.type = "create_entry" => out.resp = [kind |-> "status", status |-> 200]
        /\ (\/ out.resp.kind = "status" /\ out.resp.status # 200
            \/ out.resp.kind \in {"client_error", "timeout"})
              => out.ret = FlowResult("form", "cannot_connect")
\* C8 as amended: an entry comes to exist only by a flow step whose probe was
\* answered 200; a non-200 answer or an aiohttp client error gives the form
\* with "cannot_connect", a probe timeout or any other exception the form with
\* "unknown", and none of them creates an entry.
C8_ProbeGatesEntry ==
    [][/\ (phase = "no_entry" /\ phase' # "no_entry") =>
              /\ out'.op = "config_flow"
              /\ out'.resp = [kind |-> "status", status |-> 200]
              /\ out'.ret.type = "create_entry"
       /\ (out'.op = "config_flow" /\ out'.resp # NoResp) =>
              /\ out'.ret.type = "create_entry" =>
                    out'.resp = [kind |-> "status", status |-> 200]
              /\ (\/ out'.resp.kind = "status" /\ out'.resp.status # 200
                  \/ out'.resp.kind = "client_error")
                    => (out'.ret = FlowResult("form", "cannot_connect") /\ phase' = phase)
              /\ out'.resp.kind \in {"timeout", "exception"}
                    => (out'.ret = FlowResult("form", "unknown") /\ phase' = phase)]_vars
C8_Witness ==
    /\ out.op = "config_flow"
    /\ out.resp.kind = "timeout"
    /\ out.ret = FlowResult("form", "unknown")
    /\ phase = "no_entry"

\* the record the latest read was made on, its chosen link and tag
ReadRecord == data[out.key]
\* the digits that end t, none when t does not end with a digit
RECURSIVE DigitTail(_)
DigitTail(t) ==
    IF t # <<>> /\ t[Len(t)] \in Digits
    THEN DigitTail(SubSeq(t, 1, Len(t) - 1)) \o <<t[Len(t)]>>
    ELSE <<>>

\* C9: when the chosen link ends with "undefined" and the chosen tag with a
\* run of digits, release_url is the link with the trailing "undefined"
\* replaced by that run and every character before it unchanged; when the tag
\* has no trailing digits release_url is the link as it is.
C9_TrailingUndefinedReplaced ==
    (/\ out.op = "release_url"
     /\ out.key \in DOMAIN data
     /\ ChosenLink(ReadRecord) # None
     /\ EndsWith(ChosenLink(ReadRecord).val, Undefined)
     /\ ChosenTag(ReadRecord) # None) =>
        out.ret =
            IF DigitTail(ChosenTag(ReadRecord).val) # <<>>
            THEN Some(SubSeq(ChosenLink(ReadRecord).val, 1,
                             Len(ChosenLink(ReadRecord).val) - Len(Undefined))
                        \o DigitTail(ChosenTag(ReadRecord).val))
            ELSE ChosenLink(ReadRecord)

\* C10: release_url returns the chosen link unchanged when it ends with
\* neither "undefined" nor ".", whatever the tag, and the fix-up applied to
\* what it returned gives the same link again.
C10_OtherLinksUnchanged ==
    (/\ out.op = "release_url"
     /\ out.key \in DOMAIN data
     /\ \/ ChosenLink(ReadRecord) = None
        \/ /\ ~EndsWith(ChosenLink(ReadRecord).val, Undefined)
           /\ ~EndsWith(ChosenLink(ReadRecord).val, Dot)) =>
        /\ out.raised = ""
        /\ out.ret = ChosenLink(ReadRecord)
        /\ Fixup(out.ret, ChosenTag(ReadRecord)) = [raised |-> "", ret |-> out.ret]
C10_Witness ==
    /\ out.op = "release_url"
    /\ out.key \in DOMAIN data
    /\ ChosenLink(ReadRecord) # None
    /\ Contains(ChosenLink(ReadRecord).val, Undefined)
    /\ ~EndsWith(ChosenLink(ReadRecord).val, Undefined)
    /\ ChosenTag(ReadRecord) # None
    /\ DigitTail(ChosenTag(ReadRecord).val) # <<>>
    /\ out.ret = ChosenLink(ReadRecord)

\* record.image.tag.value and record.result.tag, None when a key is missing
RecordImageTag(rec) ==
    IF "image" \in DOMAIN rec /\ "tag" \in DOMAIN rec.image /\ "value" \in DOMAIN rec.image.tag
    THEN Some(rec.image.tag.value) ELSE None
RecordResultTag(rec) ==
    IF "result" \in DOMAIN rec /\ "tag" \in DOMAIN rec.result
    THEN Some(rec.result.tag) ELSE None
RecordUpdateAvailable(rec) == "updateAvailable" \in DOMAIN rec /\ rec.updateAvailable

\* C11: in every state, for every entity whose key is in the snapshot,
\* latest_version is record.result.tag when the record's updateAvailable is
\* true and record.image.tag.value (installed_version) when it is not, on the
\* record the snapshot holds now; a read returns that value.
C11_LatestVersionFromSnapshot ==
    data # None =>
        \A k \in entities \cap DOMAIN data :
            /\ latest_version(data, k).raised = ""
            /\ latest_version(data, k).ret =
                  IF RecordUpdateAvailable(data[k])
                  THEN RecordResultTag(data[k]) ELSE RecordImageTag(data[k])
            /\ ~RecordUpdateAvailable(data[k]) =>
                  latest_version(data, k) = installed_version(data, k)
            /\ (out.op = "latest_version" /\ out.key = k) =>
                  /\ out.raised = ""
                  /\ out.ret = IF RecordUpdateAvailable(data[k])
                               THEN RecordResultTag(data[k]) ELSE RecordImageTag(data[k])
            /\ (out.op = "installed_version" /\ out.key = k) =>
                  out.ret = RecordImageTag(data[k])
C11_Witness ==
    /\ out.op = "latest_version"
    /\ out.key = "b"
    /\ entities = {"a", "b"}
    /\ data # None
    /\ "b" \in DOMAIN data
    /\ data["b"] = RecB2
    /\ out.ret = Some(<<"9">>)
    /\ installed_version(data, "b").ret = Some(<<"8">>)

\* what C12 says of async_install and async_release_notes: none of their
\* steps (a call, and the answer of its request, whatever it is) changes the
\* snapshot, last_update_success or the entities, with refreshes running
\* between a call and its answer, and in_progress is false before and after
InstallAndNotesWriteNothing ==
    /\ (out'.op \in {"install", "release_notes"} \/ pending' # pending) =>
          /\ data' = data
          /\ last_update_success' = last_update_success
          /\ entities' = entities
    /\ out'.op \in {"install", "release_notes"} =>
          /\ in_progress(data, out'.key) = FALSE
          /\ in_progress(data', out'.key) = FALSE
    /\ out'.op = "in_progress" => out'.ret = Some(FALSE)

\* C12 as the specification states it: the snapshot and last_update_success
\* change in no step but a periodic refresh, and async_install and
\* async_release_notes change neither.
C12_OnlyPeriodicRefreshWrites ==
    [][/\ InstallAndNotesWriteNothing
       /\ (last_update_success' # last_update_success \/ data' # data) =>
              /\ out'.op = "refresh"
              /\ pending' = pending]_vars
\* C12, amended: the snapshot and last_update_success change only in a
\* periodic refresh of the loaded entry, in the first refresh a set-up does on
\* its new coordinator, and when an unload or a reload discards the
\* coordinator; async_install and async_release_notes change neither.
C12_OnlyRefreshWrites ==
    [][/\ InstallAndNotesWriteNothing
       /\ (last_update_success' # last_update_success \/ data' # data) =>
              /\ pending' = pending
              /\ \/ out'.op = "refresh" /\ phase = "loaded"
                 \/ out'.op = "setup" /\ phase = "not_loaded"
                 \/ /\ out'.op \in {"unload", "reload"}
                    /\ phase = "loaded"
                    /\ EntryId \notin domain_data'
                    /\ data' = None]_vars
\* an install answered 200 after a refresh replaced the snapshot it had read,
\* while another call still waits
C12_Witness ==
    /\ out.op = "install"
    /\ out.resp = [kind |-> "status", status |-> 200]
    /\ Len(out.calls) = 1
    /\ out.key = "a"
    /\ out.seen = Some(RecA1)
    /\ data # None
    /\ DOMAIN data = {"b"}
    /\ entities = {"a"}
    /\ last_update_success = TRUE
    /\ BagCardinality(pending) = 1

====
